---- MODULE Spec2Model ----
(***************************************************************************)
(* Project Siren: the session registry (src/lib/sessions.ts), the SSE      *)
(* broker (src/lib/sessions.ts, src/app/api/events/route.ts) and the       *)
(* request handlers that drive them (POST /api/track, POST /api/media).    *)
(*                                                                         *)
(* JavaScript runs each handler to its next await without interruption, so *)
(* one action is one synchronous stretch of a handler.                     *)
(***************************************************************************)
EXTENDS Integers, Sequences, FiniteSets, TLC

\* ------------------------------------------------------------------ bounds
\* Stand-in for the literal 100 of sessions.ts:369, 387 and 418: both
\* histories keep the last HistoryCap entries.
HistoryCap == 2
\* POST /api/track submissions, structured (one handler each) and legacy.
MaxSubs == 3
\* Legacy submissions among them.
MaxLegacy == 1
\* resetSessions calls.
MaxResets == 1
\* Stream controllers (connections) ever created.
MaxCtrl == 2
\* POST /api/media submissions.
MaxMedia == 2
\* Heartbeat ticks over all connections.
MaxPings == 4

\* Mounts of the portal page (each mount has its own React state).
MaxViews == 2
\* Samples the capture loop starts to send (interval ticks and sendFrame calls).
MaxJobs == 3
\* stopGlobalStreaming calls.
MaxStops == 2
MaxConns == 2

Req == 1..MaxSubs
Ctrl == 1..MaxCtrl
\* A mount of the portal page; the stream and the interval timer that the
\* click handler of mount v obtains are numbered v as well.
View == 1..MaxViews
Job == 1..MaxJobs

\* ------------------------------------------------------------------ inputs
\* A user-agent string is the set of the substrings that parseDevice looks
\* for in its lower-cased form.
UAiPhone == {"iphone", "mobile"}
UAiPad == {"ipad", "macintosh", "mobile"}
UAAndroid == {"android", "linux", "mobile"}
UAWindows == {"windows"}
UALinuxMobile == {"linux", "mobile"}
UAUnknown == {}

\* profile.browser.userAgent of a fingerprint that carries no userAgent
\* (undefined): userAgent.toLowerCase() throws on it.
UAUndefined == {"<undefined>"}

\* fingerprint.device.type values: two keys of deviceBreakdown and one
\* string that is no key of it.
FpTypes == {"Desktop", "Tablet", "SmartTV"}

\* "ok": every nested block and browser.userAgent present;
\* "noUA": every block present, browser.userAgent missing;
\* "noBlock": a nested block (device, browser, ...) missing.
FpShapes == {"ok", "noUA", "noBlock"}

Fingerprint(shape, type, ua) == [shape |-> shape, type |-> type, userAgent |-> ua]

Categories == {"iOS", "Android", "Desktop", "Tablet", "Unknown"}

\* ------------------------------------------------------------------ state
VARIABLES
    count,            \* sessions.count
    victims,          \* sessions.victims
    profiles,         \* sessions.profiles
    deviceBreakdown,  \* sessions.deviceBreakdown
    currentVictim,    \* sessions.currentVictim
    currentMedia,     \* sessions.currentMedia
    clients,          \* sessions.ts `clients` (globalThis.sseClients), insertion order
    routeClients,     \* events/route.ts module-local `clients`
    ctrl,             \* stream controllers: connection state, enqueued chunks, heartbeat timer
    req,              \* structured POST /api/track handlers and where each stands
    nLegacy,          \* legacy submissions made
    nResets,          \* resetSessions calls made
    nMedia,           \* media submissions made
    nPings,           \* pings enqueued by heartbeat timers
    log,              \* history: every id assignment, in order
    epoch,            \* history: resetSessions calls so far
    pubCount,         \* history: publishes so far (a publish's number tags its message)
    regAt,            \* history: pubCount when a controller was first registered
    viaGet,           \* history: controllers registered by GET /api/events
    lastFailed,       \* history: the subscribers the last publishing step removed
    lastAbsent,       \* history: the handle of the last removeClient call that found it absent (0: none)
    mediaReply,       \* the last POST /api/media exchange: the body received and the status answered
    stream,           \* window.__sirenStream.stream (0: null)
    isStreaming,      \* window.__sirenStream.isStreaming
    permissions,      \* window.__sirenStream.permissions
    lastError,        \* window.__sirenStream.lastError is not null
    interval,         \* window.__sirenStreamInterval (0: undefined)
    timers,           \* the browser's active interval timers
    tracks,           \* per MediaStream obtained, its tracks: "none", "live", "stopped", "ended"
    videoElement,     \* the hidden <video> exists (and is in the document)
    canvasElement,    \* the capture canvas exists
    audioContext,     \* an AudioContext is open
    analyser,         \* the analyser node and its data array exist
    view,
                \* per mount of the portal page: its React state and where its click handler stands
    mounted,          \* the mount now on screen
    jobs,             \* per sample started: where its sending stands and what it carries
    nJobs,            \* samples started
    nStops,           \* stopGlobalStreaming calls made
    mon               \* the monitor view: its React state, EventSource and stats request

vars == <<count, victims, profiles, deviceBreakdown, currentVictim, currentMedia,
          clients, routeClients, ctrl, req, nLegacy, nResets, nMedia, nPings,
          log, epoch, pubCount, regAt, viaGet, lastFailed, lastAbsent, mediaReply,
          stream, isStreaming, permissions, lastError, interval, timers, tracks,
          videoElement, canvasElement, audioContext, analyser,
          view, mounted, jobs, nJobs, nStops, mon>>

registryVars == <<count, victims, profiles, deviceBreakdown, currentVictim>>
brokerVars == <<clients, routeClients, ctrl, pubCount, regAt, viaGet, lastFailed>>
\* The server's state and the browser's.
serverVars == <<registryVars, brokerVars, currentMedia, req, nLegacy, nResets, nMedia, nPings,
                log, epoch, lastAbsent, mediaReply>>
captureVars == <<stream, isStreaming, permissions, lastError, interval, timers, tracks,
                 videoElement, canvasElement, audioContext, analyser,
                 view, mounted, jobs, nJobs, nStops>>

\* ------------------------------------------------------------------ helpers
Range(s) == {s[i] : i \in 1..Len(s)}

Min(a, b) == IF a < b THEN a ELSE b

\* The last n elements of s.
LastN(s, n) == SubSeq(s, Len(s) - Min(n, Len(s)) + 1, Len(s))

\* undefined for currentVictim / currentMedia.
\* ------------------------------------------------------------------ JSON values
\* A JSON value of a request body, by its JavaScript type: n is the value of
\* a number (and 1/0 for true/false), s the value of a string.
JSUndefined == [t |-> "undefined", n |-> 0, s |-> ""]
JSNull == [t |-> "null", n |-> 0, s |-> ""]
JSBool(b) == [t |-> "boolean", n |-> IF b THEN 1 ELSE 0, s |-> ""]
JSNum(n) == [t |-> "number", n |-> n, s |-> ""]
JSStr(str) == [t |-> "string", n |-> 0, s |-> str]

\* ToBoolean, as `!v` and `!!v` apply it.
Truthy(v) ==
    CASE v.t = "boolean" -> v.n = 1
      [] v.t = "number" -> v.n # 0
      [] v.t = "string" -> v.s # ""
      [] v.t = "object" -> TRUE
      [] OTHER -> FALSE

\* body.permissions: an object with its three properties (a property that
\* is not there reads as undefined), or no object at all.
Permissions(c, m, g) == [t |-> "object", camera |-> c, microphone |-> m, geolocation |-> g]
NoPermissions == [t |-> "undefined", camera |-> JSUndefined, microphone |-> JSUndefined,
                  geolocation |-> JSUndefined]

\* body.location: an object with its three properties, a non-empty string
\* (whose latitude, longitude and accuracy read as undefined), null, or nothing.
Location(lat, lon, acc) == [t |-> "object", latitude |-> lat, longitude |-> lon, accuracy |-> acc]
LocationOf(t) == [t |-> t, latitude |-> JSUndefined, longitude |-> JSUndefined,
                  accuracy |-> JSUndefined]
NoLocation == LocationOf("undefined")

\* sessions.ts:152-167 (MediaCapture), and undefined for sessions.currentMedia.
MediaCapture(frame, audioLevel, location, camera, microphone, geolocation, capturedAt) ==
    [frame |-> frame, audioLevel |-> audioLevel, location |-> location,
     permissions |-> [camera |-> camera, microphone |-> microphone, geolocation |-> geolocation],
     capturedAt |-> capturedAt, isLive |-> TRUE]
NoMedia ==
    [frame |-> JSUndefined, audioLevel |-> JSUndefined, location |-> NoLocation,
     permissions |-> [camera |-> FALSE, microphone |-> FALSE, geolocation |-> FALSE],
     capturedAt |-> JSUndefined, isLive |-> FALSE]

\* A body of POST /api/media, as request.json() gives it.
Body(perms, capturedAt, frame, audioLevel, location) ==
    [permissions |-> perms, capturedAt |-> capturedAt, frame |-> frame,
     audioLevel |-> audioLevel, location |-> location]

\* No exchange yet.
NoReply == [body |-> Body(NoPermissions, JSUndefined, JSUndefined, JSUndefined, NoLocation),
            status |-> 0]

\* ------------------------------------------------------------------ profiles
\* An array of one string.
JSArray(str) == [t |-> "object", n |-> 1, s |-> str]

\* Faulty variant of parseBrowser: without the final return.
parseBrowserNoDefault(ua) ==
    IF "chrome" \in ua /\ "edg" \notin ua THEN JSStr("Chrome")
    ELSE IF "safari" \in ua /\ "chrome" \notin ua THEN JSStr("Safari")
    ELSE IF "firefox" \in ua THEN JSStr("Firefox")
    ELSE IF "edg" \in ua THEN JSStr("Edge")
    ELSE IF "opera" \in ua \/ "opr" \in ua THEN JSStr("Opera")
    ELSE JSUndefined

\* sessions.ts:217-225.
parseBrowser(ua) ==
    IF "chrome" \in ua /\ "edg" \notin ua THEN JSStr("Chrome")
    ELSE IF "safari" \in ua /\ "chrome" \notin ua THEN JSStr("Safari")
    ELSE IF "firefox" \in ua THEN JSStr("Firefox")
    ELSE IF "edg" \in ua THEN JSStr("Edge")
    ELSE IF "opera" \in ua \/ "opr" \in ua THEN JSStr("Opera")
    ELSE JSStr("Other")

\* sessions.ts:427-488: the nested blocks addVictim gives its partial
\* profile, from the parsed device and browser; the user agent and the
\* server's time zone are strings.
LegacyBlocks(device, browser) ==
    [device |->
        [type |-> JSStr(device), os |-> JSStr("Unknown"), osVersion |-> JSStr(""),
         vendor |-> JSStr("Unknown"), model |-> JSStr(""),
         isMobile |-> JSBool(device \in {"Android", "iOS"}), isTablet |-> JSBool(FALSE)],
     browser |->
        [name |-> browser, version |-> JSStr(""), engine |-> JSStr(""),
         userAgent |-> JSStr("<userAgent>"), language |-> JSStr("en-US"),
         languages |-> JSArray("en-US"), cookiesEnabled |-> JSBool(TRUE),
         doNotTrack |-> JSBool(FALSE), platform |-> JSStr("Unknown")],
     display |->
        [screenWidth |-> JSNum(1920), screenHeight |-> JSNum(1080),
         viewportWidth |-> JSNum(1920), viewportHeight |-> JSNum(1080),
         colorDepth |-> JSNum(24), pixelRatio |-> JSNum(1),
         orientation |-> JSStr("landscape"), touchSupport |-> JSBool(FALSE),
         maxTouchPoints |-> JSNum(0)],
     network |->
        [connectionType |-> JSStr("4g"), effectiveType |-> JSStr("4g"),
         downlink |-> JSNum(10), rtt |-> JSNum(50), onLine |-> JSBool(TRUE)],
     locale |->
        [timezone |-> JSStr("<timeZone>"), timezoneOffset |-> JSNum(0),
         language |-> JSStr("en-US")],
     capabilities |->
        [webGL |-> JSBool(TRUE), webGLVendor |-> JSStr(""), webGLRenderer |-> JSStr(""),
         canvas |-> JSBool(TRUE), localStorage |-> JSBool(TRUE),
         sessionStorage |-> JSBool(TRUE), indexedDB |-> JSBool(TRUE),
         serviceWorker |-> JSBool(FALSE), webRTC |-> JSBool(TRUE),
         geolocation |-> JSBool(FALSE), notifications |-> JSBool(FALSE)],
     hardware |->
        [cpuCores |-> JSNum(4), deviceMemory |-> JSNum(8), maxTouchPoints |-> JSNum(0)]]

\* sessions.ts:293-355: of the blocks addVictimWithProfile copies from the
\* fingerprint, the two fields the registry reads again.
FingerprintBlocks(fp) ==
    [device |-> [type |-> JSStr(fp.type)],
     browser |-> [userAgent |-> IF fp.shape = "ok" THEN JSStr("<userAgent>") ELSE JSUndefined]]

NoBlocks == [device |-> [type |-> JSUndefined]]

NoProfile == [id |-> 0, type |-> "", userAgent |-> UAUnknown, ipGeo |-> FALSE, partial |-> FALSE,
              blocks |-> NoBlocks]

\* ------------------------------------------------------------------ registry
parseDevice(ua) ==
    IF "iphone" \in ua \/ "ipad" \in ua \/ "ipod" \in ua THEN "iOS"
    ELSE IF "android" \in ua THEN "Android"
    ELSE IF ("windows" \in ua \/ "macintosh" \in ua \/ "linux" \in ua) /\ "mobile" \notin ua
         THEN "Desktop"
    ELSE "Unknown"

\* Faulty variant of BreakdownKey: the else branch is missing, so a type that is no
\* key of deviceBreakdown is counted nowhere.
BreakdownKeyNoElse(type) == IF type \in Categories THEN type ELSE "none"

\* sessions.ts:361-366: the counter a structured submission is counted under.
BreakdownKey(type) == IF type \in Categories THEN type ELSE "Unknown"

Bump(bd, key) == [c \in Categories |-> IF c = key THEN bd[c] + 1 ELSE bd[c]]

Drop(bd, key) == [c \in Categories |-> IF c = key THEN bd[c] - 1 ELSE bd[c]]

\* Faulty variant of Evict: pop() instead of shift().
EvictNewest(h) == IF Len(h) > HistoryCap THEN SubSeq(h, 1, Len(h) - 1) ELSE h

\* sessions.ts:369-371, 387-389, 418-419: shift() once the history is over capacity.
Evict(h) == IF Len(h) > HistoryCap THEN Tail(h) ELSE h

\* Faulty variant of NewId: the id is taken from the history's length.
NewIdFromLength(cnt, hist) == Len(hist) + 1

\* sessions.ts:287, 404: ++sessions.count.
NewId(cnt, hist) == cnt + 1

LogEntry(id, path, outcome, type, ua) ==
    [id |-> id, path |-> path, outcome |-> outcome, epoch |-> epoch, type |-> type, userAgent |-> ua]

\* ------------------------------------------------------------------ broker
\* An SSE chunk: its type, the id of the victim or profile it carries (0: none),
\* the media it carries (NoMedia: none) and the number of its publish.
MessageWith(kind, id, media, tag) == [kind |-> kind, id |-> id, media |-> media, tag |-> tag]
Message(kind, id, tag) == MessageWith(kind, id, NoMedia, tag)

\* Faulty variant of RemoveFrom: splice(indexOf(c), 1) on an array, which removes the
\* last element when c is absent (indexOf gives -1).
RemoveFromSplice(cs, c) ==
    IF c \in Range(cs) THEN SelectSeq(cs, LAMBDA x : x # c)
    ELSE IF cs = <<>> THEN cs ELSE SubSeq(cs, 1, Len(cs) - 1)

\* sessions.ts:548, 562, 578, 602: Set.prototype.delete.
RemoveFrom(cs, c) == SelectSeq(cs, LAMBDA x : x # c)

\* sessions.ts:543: Set.prototype.add keeps insertion order and no duplicate.
AddTo(cs, c) == IF c \in Range(cs) THEN cs ELSE Append(cs, c)

\* controller.enqueue throws once the stream is closed or cancelled.
CanEnqueue(ct, c) == ct[c].state = "open"

Enqueue(ct, c, msg) == [ct EXCEPT ![c].queue = Append(@, msg)]

\* Faulty variant of Broadcast: one try/catch around the whole forEach, so the first
\* failed write ends the loop.
RECURSIVE BroadcastAbort(_, _, _, _)
BroadcastAbort(todo, cs, ct, msg) ==
    IF todo = <<>> THEN [clients |-> cs, ctrl |-> ct]
    ELSE IF CanEnqueue(ct, Head(todo))
         THEN BroadcastAbort(Tail(todo), cs, Enqueue(ct, Head(todo), msg), msg)
         ELSE [clients |-> RemoveFrom(cs, Head(todo)), ctrl |-> ct]

\* Faulty variant of Broadcast: after a failed write the loop starts over on the
\* remaining subscribers.
RECURSIVE BroadcastRestart(_, _, _, _)
BroadcastRestart(todo, cs, ct, msg) ==
    IF todo = <<>> THEN [clients |-> cs, ctrl |-> ct]
    ELSE IF CanEnqueue(ct, Head(todo))
         THEN BroadcastRestart(Tail(todo), cs, Enqueue(ct, Head(todo), msg), msg)
         ELSE BroadcastRestart(RemoveFrom(cs, Head(todo)), RemoveFrom(cs, Head(todo)), ct, msg)

\* sessions.ts:558-564 (and 574-580, 598-604): clients.forEach with a
\* try/catch per subscriber; a Set's forEach visits every member that is
\* still in the set, in insertion order. todo: the members not yet visited.
RECURSIVE Broadcast(_, _, _, _)
Broadcast(todo, cs, ct, msg) ==
    IF todo = <<>> THEN [clients |-> cs, ctrl |-> ct]
    ELSE IF CanEnqueue(ct, Head(todo))
         THEN Broadcast(Tail(todo), cs, Enqueue(ct, Head(todo), msg), msg)
         ELSE Broadcast(Tail(todo), RemoveFrom(cs, Head(todo)), ct, msg)

\* The broker's part of the state, threaded through the publishes of one step.
BrokerNow == [clients |-> clients, ctrl |-> ctrl, pubCount |-> pubCount, failed |-> {}]

PublishWith(B, kind, id, media) ==
    LET tag == B.pubCount + 1
        r == Broadcast(B.clients, B.clients, B.ctrl, MessageWith(kind, id, media, tag))
    IN [clients |-> r.clients, ctrl |-> r.ctrl, pubCount |-> tag,
        failed |-> B.failed \cup (Range(B.clients) \ Range(r.clients))]

Publish(B, kind, id) == PublishWith(B, kind, id, NoMedia)

\* sessions.ts:552-565.
notifyClients(B, victimId) == Publish(B, "victim", victimId)

\* sessions.ts:567-582.
notifyCurrentVictim(B, cur) ==
    IF cur # NoProfile THEN Publish(B, "current_victim", cur.id) ELSE B

\* sessions.ts:593-606.
notifyMediaUpdate(B, media) ==
    IF media # NoMedia THEN PublishWith(B, "media_update", 0, media) ELSE B

\* The broker's variables after the publishes of a step.
Published(B) ==
    /\ clients' = B.clients
    /\ ctrl' = B.ctrl
    /\ pubCount' = B.pubCount
    /\ lastFailed' = B.failed
    /\ UNCHANGED <<routeClients, regAt, viaGet>>


\* ------------------------------------------------------------------ initial state
NoRequest == [pc |-> "idle", fp |-> Fingerprint("ok", "", UAUnknown), id |-> 0]

\* dns-server.js:142-149: the permissions of a fresh or a stopped stream state.
NoneGranted == [camera |-> FALSE, microphone |-> FALSE, geolocation |-> FALSE]

\* portal/page.tsx:43-45: the React state of a fresh mount, whose click
\* handler has not run; grants is what the user answers to its getUserMedia
\* prompt, success what initGlobalStream returned to it.
NoView == [pc |-> "idle", captchaLoading |-> FALSE, captchaVerified |-> FALSE,
           permissionsGranted |-> FALSE, success |-> "none",
           grants |-> [camera |-> FALSE, microphone |-> FALSE]]

\* A sample not started.
NoJob == [pc |-> "none", kind |-> "", frame |-> FALSE, permissions |-> NoneGranted, after |-> FALSE]

NoController == [state |-> "none", queue |-> <<>>, heartbeat |-> FALSE]

\* admin/page.tsx:46-51 before the effects of the mount have run: no
\* EventSource (es), no stats request, stats.count (shown) 0. conn: the
\* controller serving the EventSource, read: the chunks of it handled,
\* snapshot: the count in the stats response on its way, conns: connections
\* the EventSource has started, fetchedAt: conns when fetchStats last ran.
NoMonitor == [es |-> "none", conn |-> 0, read |-> 0, connected |-> FALSE,
              fetch |-> "none", snapshot |-> 0, shown |-> 0, conns |-> 0, fetchedAt |-> 0]

Init ==
    /\ count = 0
    /\ victims = <<>>
    /\ profiles = <<>>
    /\ deviceBreakdown = [c \in Categories |-> 0]
    /\ currentVictim = NoProfile
    /\ currentMedia = NoMedia
    /\ clients = <<>>
    /\ routeClients = {}
    /\ ctrl = [c \in Ctrl |-> NoController]
    /\ req = [r \in Req |-> NoRequest]
    /\ nLegacy = 0
    /\ nResets = 0
    /\ nMedia = 0
    /\ nPings = 0
    /\ log = <<>>
    /\ epoch = 0
    /\ pubCount = 0
    /\ regAt = [c \in Ctrl |-> -1]
    /\ viaGet = {}
    /\ lastFailed = {}
    /\ lastAbsent = 0
    /\ mediaReply = NoReply
    /\ stream = 0
    /\ isStreaming = FALSE
    /\ permissions = NoneGranted
    /\ lastError = FALSE
    /\ interval = 0
    /\ timers = {}
    /\ tracks = [s \in View |-> "none"]
    /\ videoElement = FALSE
    /\ canvasElement = FALSE
    /\ audioContext = FALSE
    /\ analyser = FALSE
    /\ view = [v \in View |-> NoView]
    /\ mounted = 1
    /\ jobs = [j \in Job |-> NoJob]
    /\ nJobs = 0
    /\ nStops = 0
    /\ mon = NoMonitor

\* ------------------------------------------------------------------ POST /api/track
\* Submissions made so far.
Started == Cardinality({r \in Req : req[r].pc # "idle"}) + nLegacy

\* part_003:11-47 and sessions.ts:280-284: the handler parses the body, finds
\* a fingerprint, enters addVictimWithProfile and is suspended at
\* `await fetchIPGeolocation(ip)`. Handlers are taken in order of arrival.
PostTrackBegin(r, fp) ==
    /\ req[r].pc = "idle"
    /\ \A q \in Req : q < r => req[q].pc # "idle"
    /\ Started < MaxSubs
    /\ req' = [req EXCEPT ![r] = [pc |-> "geo", fp |-> fp, id |-> 0]]
    /\ UNCHANGED <<registryVars, currentMedia, brokerVars, nLegacy, nResets, nMedia, nPings,
                   log, epoch, lastAbsent, mediaReply, captureVars, mon>>

\* sessions.ts:286-391: addVictimWithProfile from the lookup's answer to its
\* return. geo: whether the lookup gave a location.
\*   noBlock: ++sessions.count is evaluated, then reading a field of the
\*            missing block throws (part_003:74 answers 500);
\*   noUA:    the profile is pushed and counted, then parseDevice(undefined)
\*            throws at line 379, before sessions.victims.push.
AddVictimWithProfileResume(r, geo) ==
    LET fp == req[r].fp
        id == NewId(count, profiles)
        profile == [id |-> id, type |-> fp.type, userAgent |-> fp.userAgent,
                    ipGeo |-> geo, partial |-> FALSE, blocks |-> FingerprintBlocks(fp)]
        legacyVictim == [id |-> id, userAgent |-> fp.userAgent,
                         device |-> parseDevice(fp.userAgent)]
    IN
    /\ req[r].pc = "geo"
    /\ count' = id
    /\ log' = Append(log, LogEntry(id, "profile", fp.shape, fp.type, fp.userAgent))
    /\ IF fp.shape = "noBlock"
       THEN /\ req' = [req EXCEPT ![r].pc = "failed"]
            /\ UNCHANGED <<victims, profiles, deviceBreakdown, currentVictim>>
       ELSE /\ profiles' = Evict(Append(profiles, profile))
            /\ currentVictim' = profile
            /\ deviceBreakdown' = Bump(deviceBreakdown, BreakdownKey(profile.type))
            /\ IF fp.shape = "noUA"
               THEN /\ req' = [req EXCEPT ![r].pc = "failed", ![r].id = id]
                    /\ UNCHANGED victims
               ELSE /\ victims' = Evict(Append(victims, legacyVictim))
                    /\ req' = [req EXCEPT ![r].pc = "recorded", ![r].id = id]
    /\ UNCHANGED <<currentMedia, brokerVars, nLegacy, nResets, nMedia, nPings, epoch, lastAbsent,
                   mediaReply, captureVars, mon>>

\* part_003:49-57: after `await addVictimWithProfile(...)` returns.
PostTrackNotify(r) ==
    LET B == notifyClients(notifyCurrentVictim(BrokerNow, currentVictim), req[r].id)
    IN
    /\ req[r].pc = "recorded"
    /\ req' = [req EXCEPT ![r].pc = "done"]
    /\ Published(B)
    /\ UNCHANGED <<registryVars, currentMedia, nLegacy, nResets, nMedia, nPings, log, epoch,
                   lastAbsent, mediaReply, captureVars, mon>>

\* sessions.ts:425-491: the partial profile addVictim makes of a legacy victim.
PartialProfile(victim) ==
    [id |-> victim.id, type |-> victim.device, userAgent |-> victim.userAgent,
     ipGeo |-> FALSE, partial |-> TRUE,
     blocks |-> LegacyBlocks(victim.device, parseBrowser(victim.userAgent))]

\* Faulty variant of LegacyCurrent: addVictim leaves sessions.currentVictim alone.
LegacyCurrentKept(victim, cur) == cur

\* sessions.ts:491: sessions.currentVictim = partialProfile.
LegacyCurrent(victim, cur) == PartialProfile(victim)

\* part_003:58-72 with sessions.ts:395-497: a body without fingerprint. The
\* handler touches no shared state before its only await (request.json()),
\* so what follows is one synchronous stretch: addVictim, which itself calls
\* notifyCurrentVictim (line 494), then notifyClients(victim).
PostTrackLegacy(ua) ==
    LET device == parseDevice(ua)
        id == NewId(count, victims)
        victim == [id |-> id, userAgent |-> ua, device |-> device]
        pushed == Append(victims, victim)
        cur == LegacyCurrent(victim, currentVictim)
        B == notifyClients(notifyCurrentVictim(BrokerNow, cur), id)
    IN
    /\ nLegacy < MaxLegacy
    /\ Started < MaxSubs
    /\ nLegacy' = nLegacy + 1
    /\ count' = id
    /\ victims' = Evict(pushed)
    /\ deviceBreakdown' =
          IF Len(pushed) > HistoryCap
          THEN Drop(Bump(deviceBreakdown, device), Head(pushed).device)
          ELSE Bump(deviceBreakdown, device)
    /\ currentVictim' = cur
    /\ log' = Append(log, LogEntry(id, "legacy", "ok", device, ua))
    /\ Published(B)
    /\ UNCHANGED <<profiles, currentMedia, req, nResets, nMedia, nPings, epoch, lastAbsent,
                   mediaReply, captureVars, mon>>

\* sessions.ts:519-525.
resetSessions ==
    /\ nResets < MaxResets
    /\ nResets' = nResets + 1
    /\ count' = 0
    /\ victims' = <<>>
    /\ profiles' = <<>>
    /\ deviceBreakdown' = [c \in Categories |-> 0]
    /\ currentVictim' = NoProfile
    /\ epoch' = epoch + 1
    /\ UNCHANGED <<currentMedia, brokerVars, req, nLegacy, nMedia, nPings, log, lastAbsent,
                   mediaReply, captureVars, mon>>

\* ------------------------------------------------------------------ GET /api/events
\* Faulty variant of ConnectChunks: the current victim is replayed to a subscriber as
\* it connects (tagged as the last publish, which it repeats).
ConnectChunksReplay(cur, n) ==
    IF cur # NoProfile /\ n > 0
    THEN <<Message("connected", 0, 0), Message("current_victim", cur.id, n)>>
    ELSE <<Message("connected", 0, 0)>>

\* events/route.ts:38-40: what start() enqueues on a new connection.
\* cur: sessions.currentVictim, n: publishes so far (neither is read).
ConnectChunks(cur, n) == <<Message("connected", 0, 0)>>

\* events/route.ts:32-72: the stream's start callback, run by the
\* ReadableStream constructor: the controller joins the route module's own
\* `clients` set (line 9), gets the connect message and a heartbeat timer.
\* Connections are numbered in order of arrival.
GetEvents(c) ==
    /\ ctrl[c].state = "none"
    /\ \A d \in Ctrl : d < c => ctrl[d].state # "none"
    /\ routeClients' = routeClients \cup {c}
    /\ ctrl' = [ctrl EXCEPT ![c] = [state |-> "open",
                                    queue |-> ConnectChunks(currentVictim, pubCount),
                                    heartbeat |-> TRUE]]
    /\ regAt' = [regAt EXCEPT ![c] = pubCount]
    /\ viaGet' = viaGet \cup {c}
    /\ UNCHANGED <<registryVars, currentMedia, clients, pubCount, lastFailed, req,
                   nLegacy, nResets, nMedia, nPings, log, epoch, lastAbsent, mediaReply,
                   captureVars, mon>>

\* Faulty variant of OnPingFailure: the catch swallows the error.
OnPingFailureIgnored(ct, rc, c) == [ctrl |-> ct, routeClients |-> rc]

\* events/route.ts:47-50: the catch of the heartbeat callback clears the
\* timer and deletes the controller from the route's set.
OnPingFailure(ct, rc, c) ==
    [ctrl |-> [ct EXCEPT ![c].heartbeat = FALSE], routeClients |-> rc \ {c}]

\* events/route.ts:43-51: one tick of a connection's heartbeat timer.
Heartbeat(c) ==
    /\ ctrl[c].heartbeat
    /\ IF CanEnqueue(ctrl, c)
       THEN /\ nPings < MaxPings
            /\ nPings' = nPings + 1
            /\ ctrl' = Enqueue(ctrl, c, Message("ping", 0, 0))
            /\ UNCHANGED routeClients
       ELSE /\ ctrl' = OnPingFailure(ctrl, routeClients, c).ctrl
            /\ routeClients' = OnPingFailure(ctrl, routeClients, c).routeClients
            /\ UNCHANGED nPings
    /\ UNCHANGED <<registryVars, currentMedia, clients, pubCount, regAt, viaGet, lastFailed,
                   req, nLegacy, nResets, nMedia, log, epoch, lastAbsent, mediaReply, captureVars, mon>>

\* The client goes away: the stream is cancelled and enqueue throws from
\* then on. events/route.ts:59-61: cancel() does nothing.
Disconnect(c) ==
    /\ ctrl[c].state = "open"
    /\ ctrl' = [ctrl EXCEPT ![c].state = "closed"]
    /\ UNCHANGED <<registryVars, currentMedia, clients, routeClients, pubCount, regAt,
                   viaGet, lastFailed, req, nLegacy, nResets, nMedia, nPings, log, epoch, lastAbsent,
                   mediaReply, captureVars, mon>>

\* sessions.ts:542-545. No code under src/ calls addClient (GET /api/events
\* keeps its own set), so its handle is the controller of a stream its
\* caller has just made: a new connection, registered once.
addClient(c) ==
    /\ ctrl[c].state = "none"
    /\ \A d \in Ctrl : d < c => ctrl[d].state # "none"
    /\ clients' = AddTo(clients, c)
    /\ ctrl' = [ctrl EXCEPT ![c] = [state |-> "open", queue |-> <<>>, heartbeat |-> FALSE]]
    /\ regAt' = [regAt EXCEPT ![c] = pubCount]
    /\ UNCHANGED <<registryVars, currentMedia, routeClients, pubCount, viaGet, lastFailed, req,
                   nLegacy, nResets, nMedia, nPings, log, epoch, lastAbsent, mediaReply,
                   captureVars, mon>>

\* sessions.ts:547-550, on any existing handle, registered or not.
removeClient(c) ==
    /\ ctrl[c].state # "none"
    /\ clients' = RemoveFrom(clients, c)
    /\ lastAbsent' = IF c \in Range(clients) THEN lastAbsent ELSE c
    /\ UNCHANGED <<registryVars, currentMedia, routeClients, ctrl, pubCount, regAt, viaGet,
                   lastFailed, req, nLegacy, nResets, nMedia, nPings, log, epoch, mediaReply,
                   captureVars, mon>>

\* ------------------------------------------------------------------ POST /api/media
AllGranted == Permissions(JSBool(TRUE), JSBool(TRUE), JSBool(TRUE))
CameraOnly == Permissions(JSBool(TRUE), JSBool(FALSE), JSBool(FALSE))

\* The bodies submitted: what the capture loop sends (every field, null for a
\* frame or a location it does not have), the required fields alone, one or
\* both required fields missing, a permissions object without all its
\* booleans, and optional fields of another type or range.
MediaBodies ==
    {Body(AllGranted, JSStr("t1"), JSStr("jpeg1"), JSNum(40), Location(JSNum(1), JSNum(2), JSNum(3))),
     Body(CameraOnly, JSStr("t2"), JSNull, JSNum(0), LocationOf("null")),
     Body(CameraOnly, JSStr("t3"), JSUndefined, JSUndefined, NoLocation),
     Body(NoPermissions, JSStr("t4"), JSStr("jpeg4"), JSNum(40), NoLocation),
     Body(AllGranted, JSUndefined, JSStr("jpeg5"), JSUndefined, NoLocation),
     Body(NoPermissions, JSUndefined, JSUndefined, JSUndefined, NoLocation),
     Body(Permissions(JSUndefined, JSUndefined, JSUndefined), JSStr("t6"),
          JSUndefined, JSUndefined, NoLocation),
     Body(Permissions(JSStr("yes"), JSNum(0), JSUndefined), JSStr("t7"),
          JSStr("jpeg7"), JSUndefined, NoLocation),
     Body(AllGranted, JSStr("t8"), JSNum(7), JSStr("loud"), LocationOf("string")),
     Body(AllGranted, JSStr("t9"), JSUndefined, JSNum(250),
          Location(JSStr("north"), JSUndefined, JSNum(3)))}

\* Faulty variant of MissingRequired: capturedAt is not looked at.
MissingRequiredPermissionsOnly(body) == ~Truthy(body.permissions)

\* media/route.ts:15.
MissingRequired(body) == ~Truthy(body.permissions) \/ body.capturedAt.t = "undefined"

\* media/route.ts:23-38.
Transform(body) ==
    MediaCapture(
        IF body.frame.t = "string" THEN body.frame ELSE JSUndefined,
        IF body.audioLevel.t \in {"undefined", "null"} THEN JSUndefined ELSE body.audioLevel,
        IF body.location.t \in {"object", "string"}
        THEN Location(body.location.latitude, body.location.longitude, body.location.accuracy)
        ELSE NoLocation,
        Truthy(body.permissions.camera),
        Truthy(body.permissions.microphone),
        Truthy(body.permissions.geolocation),
        body.capturedAt)

\* Faulty variant of SetMedia: the new sample is laid over the previous one,
\* so a field the new sample does not have keeps its earlier value.
SetMediaMerged(old, media) ==
    [media EXCEPT !.frame = IF media.frame = JSUndefined THEN old.frame ELSE media.frame,
                  !.location = IF media.location = NoLocation THEN old.location
                               ELSE media.location]

\* sessions.ts:589.
SetMedia(old, media) == media

\* media/route.ts:10-51 with sessions.ts:588-591 (updateMedia).
PostMedia(body) ==
    /\ nMedia < MaxMedia
    /\ nMedia' = nMedia + 1
    /\ IF MissingRequired(body)
       THEN /\ mediaReply' = [body |-> body, status |-> 400]
            /\ UNCHANGED <<currentMedia, brokerVars>>
       ELSE LET media == SetMedia(currentMedia, Transform(body))
                B == notifyMediaUpdate(BrokerNow, media)
            IN /\ currentMedia' = media
               /\ Published(B)
               /\ mediaReply' = [body |-> body, status |-> 200]
    /\ UNCHANGED <<registryVars, req, nLegacy, nResets, nPings, log, epoch, lastAbsent,
                   captureVars, mon>>

\* ------------------------------------------------------------------ capture loop
\* What the user (and the devices) let a getUserMedia request have.
Grants == [camera : BOOLEAN, microphone : BOOLEAN]

\* MediaStream.active: some track of the stream has not ended.
Active(s) == s # 0 /\ tracks[s] = "live"

\* Samples whose sending has failed so far.
Failures == Cardinality({j \in Job : jobs[j].pc = "failed"})

\* dns-server.js:172-204 and 209-234: captureFrame gives a frame when the
\* video and canvas elements exist and the video has data and is playing.
captureFrame(video, canvas, ready) == video /\ canvas /\ ready

\* dns-server.js:428-445 and 462-477: the sample is captured, then the
\* location is awaited if geolocation was granted, else the request is sent
\* at once with the permissions of that moment.
StartJob(kind, perms, frame) ==
    [pc |-> IF perms.geolocation THEN "getGeolocation" ELSE "fetch",
     kind |-> kind, frame |-> frame,
     permissions |-> IF perms.geolocation THEN NoneGranted ELSE perms,
     after |-> Failures > 0]

\* Faulty variant of AlreadyStreaming: the interval handle is not looked at.
AlreadyStreamingNever(iv) == FALSE

\* dns-server.js:406.
AlreadyStreaming(iv) == iv # 0

\* Faulty variant of OnSendFailure: the catch clears the interval handle.
OnSendFailureCleared(iv) == 0

\* dns-server.js:446-448 and 478-480: the catch of a failed fetch logs or
\* does nothing; iv is window.__sirenStreamInterval.
OnSendFailure(iv) == iv

\* portal/page.tsx: the page is unmounted and mounted again (navigation
\* away and back); the new mount has fresh React state, window keeps its own.
Remount ==
    /\ mounted < MaxViews
    /\ mounted' = mounted + 1
    /\ UNCHANGED <<serverVars, mon, stream, isStreaming, permissions, lastError, interval, timers,
                   tracks, videoElement, canvasElement, audioContext, analyser, view, jobs,
                   nJobs, nStops>>

\* portal/page.tsx:123-130 with dns-server.js:322-340: a click on the mounted
\* page's checkbox, up to the first await. With an active stream
\* initGlobalStream returns true at once and the handler goes on to
\* requestGeolocation; otherwise getUserMedia({video, audio}) is requested.
handleCaptchaClick(v) ==
    /\ v = mounted
    /\ view[v].pc = "idle"
    /\ ~(view[v].captchaVerified \/ view[v].captchaLoading)
    /\ view' = [view EXCEPT ![v].captchaLoading = TRUE,
                            ![v].pc = IF Active(stream) THEN "requestGeolocation"
                                      ELSE "getUserMedia",
                            ![v].success = IF Active(stream) THEN "true" ELSE "none"]
    /\ UNCHANGED <<serverVars, mon, stream, isStreaming, permissions, lastError, interval, timers,
                   tracks, videoElement, canvasElement, audioContext, analyser, mounted, jobs,
                   nJobs, nStops>>

\* dns-server.js:333-361: getUserMedia({video, audio}) settles. It resolves
\* only if both camera and microphone are to be had; then the stream is
\* stored and the video and audio capture are set up (lines 342-352, 172-204,
\* 247-264). Otherwise the error is kept and camera alone is requested.
GetUserMediaSettles(v, g) ==
    /\ view[v].pc = "getUserMedia"
    /\ IF g.camera /\ g.microphone
       THEN /\ stream' = v
            /\ tracks' = [tracks EXCEPT ![v] = "live"]
            /\ permissions' = [permissions EXCEPT !.camera = TRUE, !.microphone = TRUE]
            /\ lastError' = FALSE
            /\ videoElement' = TRUE
            /\ canvasElement' = TRUE
            /\ audioContext' = TRUE
            /\ analyser' = TRUE
            /\ view' = [view EXCEPT ![v].pc = "requestGeolocation", ![v].grants = g,
                                    ![v].success = "true"]
       ELSE /\ lastError' = TRUE
            /\ view' = [view EXCEPT ![v].pc = "getUserMediaVideo", ![v].grants = g]
            /\ UNCHANGED <<stream, tracks, permissions, videoElement, canvasElement,
                           audioContext, analyser>>
    /\ UNCHANGED <<serverVars, mon, isStreaming, interval, timers, mounted,
                   jobs, nJobs, nStops>>

\* Faulty variant of DeniedView: the handler gives up without marking the
\* captcha verified.
DeniedViewStuck(vw) == [vw EXCEPT !.pc = "done", !.success = "false"]

\* portal/page.tsx:130-150 when initGlobalStream returned false: nothing is
\* started, the captcha is marked verified and the spinner is taken away.
DeniedView(vw) ==
    [vw EXCEPT !.pc = "done", !.success = "false", !.captchaVerified = TRUE,
               !.captchaLoading = FALSE]

\* dns-server.js:358-370 with portal/page.tsx:132-150: getUserMedia({video})
\* settles. With the camera the stream is stored and the handler goes on to
\* requestGeolocation; without it initGlobalStream returns false and the
\* handler marks the captcha verified.
GetUserMediaVideoSettles(v) ==
    /\ view[v].pc = "getUserMediaVideo"
    /\ IF view[v].grants.camera
       THEN /\ stream' = v
            /\ tracks' = [tracks EXCEPT ![v] = "live"]
            /\ permissions' = [permissions EXCEPT !.camera = TRUE]
            /\ videoElement' = TRUE
            /\ canvasElement' = TRUE
            /\ view' = [view EXCEPT ![v].pc = "requestGeolocation", ![v].success = "true"]
       ELSE /\ view' = [view EXCEPT ![v] = DeniedView(view[v])]
            /\ UNCHANGED <<stream, tracks, permissions, videoElement, canvasElement>>
    /\ UNCHANGED <<serverVars, mon, isStreaming, lastError, interval, timers, audioContext,
                   analyser, mounted, jobs, nJobs, nStops>>

\* dns-server.js:377-392 settles, then portal/page.tsx:137-149 with
\* dns-server.js:402-453 (startGlobalStreaming) and 458-464 (sendFrame up
\* to its first await).
RequestGeolocationSettles(v, ok, ready) ==
    LET perms == IF ok THEN [permissions EXCEPT !.geolocation = TRUE] ELSE permissions
        starts == ~AlreadyStreaming(interval) /\ stream # 0
    IN /\ view[v].pc = "requestGeolocation"
       /\ starts => nJobs < MaxJobs
       /\ permissions' = perms
       /\ IF starts
          THEN /\ isStreaming' = TRUE
               /\ interval' = v
               /\ timers' = timers \cup {v}
               /\ nJobs' = nJobs + 1
               /\ jobs' = [jobs EXCEPT ![nJobs + 1] =
                              StartJob("sendFrame", perms,
                                       captureFrame(videoElement, canvasElement, ready))]
          ELSE UNCHANGED <<isStreaming, interval, timers, nJobs, jobs>>
       /\ view' = [view EXCEPT ![v].pc = "done", ![v].permissionsGranted = TRUE,
                               ![v].captchaVerified = TRUE, ![v].captchaLoading = FALSE]
       /\ UNCHANGED <<serverVars, mon, stream, lastError, tracks, videoElement, canvasElement,
                      audioContext, analyser, mounted, nStops>>

\* dns-server.js:486-521: what stopGlobalStreaming does.
Released ==
    /\ timers' = timers \ {interval}
    /\ interval' = 0
    /\ tracks' = IF stream # 0 /\ tracks[stream] = "live"
                 THEN [tracks EXCEPT ![stream] = "stopped"] ELSE tracks
    /\ stream' = 0
    /\ audioContext' = FALSE
    /\ videoElement' = FALSE
    /\ canvasElement' = FALSE
    /\ analyser' = FALSE
    /\ isStreaming' = FALSE
    /\ permissions' = NoneGranted
    /\ nStops' = nStops + 1

\* dns-server.js:486-521, called from outside the loop.
stopGlobalStreaming ==
    /\ nStops < MaxStops
    /\ Released
    /\ UNCHANGED <<serverVars, mon, lastError, view, mounted, jobs, nJobs>>

\* dns-server.js:420-445: an active interval timer fires, up to the
\* callback's first await. Without an active stream it stops the loop;
\* otherwise it captures a sample and starts to send it, whatever became of
\* the samples started before.
Tick(ready) ==
    /\ timers # {}
    /\ IF ~Active(stream)
       THEN /\ nStops < MaxStops
            /\ Released
            /\ UNCHANGED <<jobs, nJobs>>
       ELSE /\ nJobs < MaxJobs
            /\ nJobs' = nJobs + 1
            /\ jobs' = [jobs EXCEPT ![nJobs + 1] =
                           StartJob("tick", permissions,
                                    captureFrame(videoElement, canvasElement, ready))]
            /\ UNCHANGED <<stream, isStreaming, permissions, interval, timers, tracks,
                           videoElement, canvasElement, audioContext, analyser, nStops>>
    /\ UNCHANGED <<serverVars, mon, lastError, view, mounted>>

\* dns-server.js:292-312 settles (getGeolocation gives the new fix or the
\* cached one, and never throws), then 433-445 (or 466-477): the request is
\* sent with the permissions of this moment.
GetGeolocationSettles(j) ==
    /\ jobs[j].pc = "getGeolocation"
    /\ jobs' = [jobs EXCEPT ![j].pc = "fetch", ![j].permissions = permissions]
    /\ UNCHANGED <<serverVars, mon, stream, isStreaming, permissions, lastError, interval, timers,
                   tracks, videoElement, canvasElement, audioContext, analyser,
                   view, mounted, nJobs, nStops>>

\* How a fetch of /api/media can end.
FetchOutcomes == {"ok", "errorResponse", "networkError"}

\* dns-server.js:435-448 (and 467-480): the fetch settles.
FetchSettles(j, outcome) ==
    /\ jobs[j].pc = "fetch"
    /\ jobs' = [jobs EXCEPT ![j].pc = IF outcome = "ok" THEN "done" ELSE "failed"]
    /\ interval' = IF outcome = "networkError" THEN OnSendFailure(interval) ELSE interval
    /\ timers' = IF interval' = interval THEN timers ELSE timers \ {interval}
    /\ UNCHANGED <<serverVars, mon, stream, isStreaming, permissions, lastError, tracks,
                   videoElement, canvasElement, audioContext, analyser,
                   view, mounted, nJobs, nStops>>

\* The tracks of a stream end by themselves (the device is unplugged, the
\* permission is revoked).
TrackEnds(s) ==
    /\ tracks[s] = "live"
    /\ tracks' = [tracks EXCEPT ![s] = "ended"]
    /\ UNCHANGED <<serverVars, mon, stream, isStreaming, permissions, lastError, interval, timers,
                   videoElement, canvasElement, audioContext, analyser,
                   view, mounted, jobs, nJobs, nStops>>

\* ------------------------------------------------------------------ monitor view
\* admin/page.tsx:142-149: the effects of the mount, in order: fetchStats
\* sends GET /api/stats, then the EventSource is made and starts to connect.
Mount ==
    /\ mon.es = "none"
    /\ mon' = [mon EXCEPT !.fetch = "sent", !.es = "connecting", !.conns = 1, !.fetchedAt = 1]
    /\ UNCHANGED <<serverVars, captureVars>>

\* stats/route.ts:8-16: the handler reads the registry's count.
GetStats ==
    /\ mon.fetch = "sent"
    /\ mon' = [mon EXCEPT !.fetch = "answered", !.snapshot = count]
    /\ UNCHANGED <<serverVars, captureVars>>

\* admin/page.tsx:131-135: the response arrives and replaces the stats.
FetchStatsSettles ==
    /\ mon.fetch = "answered"
    /\ mon' = [mon EXCEPT !.fetch = "done", !.shown = mon.snapshot]
    /\ UNCHANGED <<serverVars, captureVars>>

\* admin/page.tsx:150-152: the response of GET /api/events arrives from
\* the newest stream c of the route; onopen sets connected and nothing else.
OnOpen(c) ==
    /\ mon.es = "connecting"
    /\ c \in viaGet /\ c > mon.conn
    /\ \A d \in viaGet : d <= c
    /\ mon' = [mon EXCEPT !.es = "open", !.conn = c, !.read = 0, !.connected = TRUE]
    /\ UNCHANGED <<serverVars, captureVars>>

\* admin/page.tsx:154-192: the next chunk of the connection is handled.
\* connected and ping are dropped, current_victim and media_update go to
\* their own state, anything else is a new victim and adds 1 to stats.count.
OnMessage ==
    /\ mon.es = "open"
    /\ mon.read < Len(ctrl[mon.conn].queue)
    /\ LET m == ctrl[mon.conn].queue[mon.read + 1]
       IN mon' = [mon EXCEPT !.read = @ + 1,
                             !.shown = IF m.kind \in {"connected", "ping", "current_victim",
                                                      "media_update"}
                                       THEN @ ELSE @ + 1]
    /\ UNCHANGED <<serverVars, captureVars>>

\* admin/page.tsx:194-196: the connection broke; onerror clears connected
\* and the EventSource connects again by itself. Chunks not yet handled are
\* lost.
OnError ==
    /\ mon.es = "open"
    /\ ctrl[mon.conn].state = "closed"
    /\ mon.conns < MaxConns
    /\ mon' = [mon EXCEPT !.es = "connecting", !.connected = FALSE, !.conns = @ + 1]
    /\ UNCHANGED <<serverVars, captureVars>>

\* ------------------------------------------------------------------ specifications
Fingerprints ==
    {Fingerprint("ok", "Desktop", UAWindows), Fingerprint("ok", "Tablet", UAiPad),
     Fingerprint("ok", "SmartTV", UALinuxMobile),
     Fingerprint("noUA", "Desktop", UAUndefined), Fingerprint("noBlock", "", UAUndefined)}

LegacyUAs == {UAiPhone, UAWindows, UAUnknown}

\* The registry under every submission path and resetSessions, up to the
\* return of addVictimWithProfile (what POST /api/track does after it,
\* PostTrackNotify, leaves the registry alone); nobody is subscribed.
NextRegistry ==
    \/ \E r \in Req, fp \in Fingerprints : PostTrackBegin(r, fp)
    \/ \E r \in Req : AddVictimWithProfileResume(r, FALSE)
    \/ \E ua \in LegacyUAs : PostTrackLegacy(ua)
    \/ resetSessions

SpecRegistry == Init /\ [][NextRegistry]_vars

BrokerMediaBodies ==
    {Body(AllGranted, JSStr("t1"), JSStr("jpeg1"), JSNum(40), Location(JSNum(1), JSNum(2), JSNum(3)))}

\* The broker under connects, disconnects and the publishes of
\* the track and media handlers, with one input of each kind
\* (the legacy path of POST /api/track publishes both profile events)
\* and one media submission.
NextBroker ==
    \/ \E c \in Ctrl : GetEvents(c)
    \/ \E c \in Ctrl : Disconnect(c)
    \/ \E c \in Ctrl : addClient(c)
    \/ \E c \in Ctrl : removeClient(c)
    \/ nMedia = 0 /\ \E body \in BrokerMediaBodies : PostMedia(body)
    \/ PostTrackLegacy(UAiPhone)

SpecBroker == Init /\ [][NextBroker]_vars

\* POST /api/media under every kind of body, with subscribers of the
\* sessions.ts set to publish to.
NextMedia ==
    \/ \E body \in MediaBodies : PostMedia(body)
    \/ \E c \in Ctrl : addClient(c)

SpecMedia == Init /\ [][NextMedia]_vars

\* The registry under legacy submissions, media submissions and resets.
NextReset ==
    \/ \E ua \in LegacyUAs : PostTrackLegacy(ua)
    \/ \E body \in MediaBodies : PostMedia(body)
    \/ resetSessions

SpecReset == Init /\ [][NextReset]_vars

\* The monitor view against the server: its stats request, its
\* EventSource with its reconnections, and legacy submissions.
NextMonitor ==
    \/ Mount
    \/ GetStats
    \/ FetchStatsSettles
    \/ \E c \in Ctrl : GetEvents(c)
    \/ \E c \in Ctrl : OnOpen(c)
    \/ OnMessage
    \/ \E c \in Ctrl : Disconnect(c)
    \/ OnError
    \/ \E ua \in LegacyUAs : PostTrackLegacy(ua)

SpecMonitor == Init /\ [][NextMonitor]_vars

\* GET /api/events under connects, clients that go away and heartbeat
\* ticks. A heartbeat timer fires every 30 seconds for as long as it is
\* not cleared.
NextEvents ==
    \/ \E c \in Ctrl : GetEvents(c)
    \/ \E c \in Ctrl : Disconnect(c)
    \/ \E c \in Ctrl : Heartbeat(c)

SpecEvents == Init /\ [][NextEvents]_vars /\ \A c \in Ctrl : WF_vars(Heartbeat(c))

\* Structured submissions to POST /api/track, each in its three stretches
\* (up to the await inside addVictimWithProfile, the record, the publishes
\* after the handler's own await), with one subscriber of the sessions.ts
\* set and fingerprints that are accepted.
NextTrack ==
    \/ \E r \in Req : PostTrackBegin(r, Fingerprint("ok", "Desktop", UAWindows))
    \/ \E r \in Req : AddVictimWithProfileResume(r, FALSE)
    \/ \E r \in Req : PostTrackNotify(r)
    \/ addClient(1)

SpecTrack == Init /\ [][NextTrack]_vars

\* The capture loop in the browser, from the clicks to the running interval:
\* clicks on the portal's checkbox from successive mounts of the page, the
\* requests they wait for under every answer of the user, the interval
\* ticks, tracks that end and stopGlobalStreaming. Samples are started
\* and stay in flight.
NextAcquire ==
    \/ Remount
    \/ \E v \in View : handleCaptchaClick(v)
    \/ \E v \in View, g \in Grants : GetUserMediaSettles(v, g)
    \/ \E v \in View : GetUserMediaVideoSettles(v)
    \/ \E v \in View, ok \in BOOLEAN : RequestGeolocationSettles(v, ok, TRUE)
    \/ Tick(TRUE)
    \/ stopGlobalStreaming
    \/ \E s \in View : TrackEnds(s)

SpecAcquire == Init /\ [][NextAcquire]_vars

\* The capture loop of one mount whose user grants camera and microphone:
\* the interval ticks and the sending of every sample, under every outcome
\* of its requests, with tracks that end and stopGlobalStreaming.
NextSend ==
    \/ handleCaptchaClick(1)
    \/ GetUserMediaSettles(1, [camera |-> TRUE, microphone |-> TRUE])
    \/ \E ok \in BOOLEAN, ready \in BOOLEAN : RequestGeolocationSettles(1, ok, ready)
    \/ \E ready \in BOOLEAN : Tick(ready)
    \/ \E j \in Job : GetGeolocationSettles(j)
    \/ \E j \in Job, outcome \in FetchOutcomes : FetchSettles(j, outcome)
    \/ stopGlobalStreaming
    \/ TrackEnds(1)

SpecSend == Init /\ [][NextSend]_vars

Next ==
    \/ NextRegistry
    \/ NextBroker
    \/ \E r \in Req : PostTrackNotify(r)
    \/ \E c \in Ctrl : Heartbeat(c)
    \/ \E body \in MediaBodies : PostMedia(body)
    \/ NextMedia
    \/ NextAcquire
    \/ NextSend

Spec == Init /\ [][Next]_vars

\* ------------------------------------------------------------------ history views
\* The id assignments made since the last resetSessions.
EpochLog == SelectSeq(log, LAMBDA e : e.epoch = epoch)

\* The handler answered success: the entry was pushed to sessions.victims.
Accepted(e) == e.path = "legacy" \/ e.outcome = "ok"

\* The entry was pushed to sessions.profiles.
Profiled(e) == e.path = "profile" /\ e.outcome \in {"ok", "noUA"}

\* The entry became sessions.currentVictim.
Recorded(e) == e.path = "legacy" \/ e.outcome \in {"ok", "noUA"}

Key(h) == [i \in 1..Len(h) |-> <<h[i].id, h[i].userAgent>>]

Ascending(h) == \A i, j \in 1..Len(h) : i < j => h[i].id < h[j].id

\* The ids of the entries retained in either history.
RetainedIds == {profiles[i].id : i \in 1..Len(profiles)} \cup {victims[i].id : i \in 1..Len(victims)}

\* A submission of device type `type` belongs to category c (a type that is
\* no category belongs to Unknown).
CountedUnder(type, c) == type = c \/ (c = "Unknown" /\ type \notin Categories)

\* The retained entry `id` belongs to category c: by its profile's device
\* type, or, having no profile, by its legacy device.
InCategory(id, c) ==
    IF \E i \in 1..Len(profiles) : profiles[i].id = id
    THEN CountedUnder((CHOOSE p \in Range(profiles) : p.id = id).type, c)
    ELSE (CHOOSE v \in Range(victims) : v.id = id).device = c

EventKinds == {"victim", "current_victim", "media_update"}

Events(c) == SelectSeq(ctrl[c].queue, LAMBDA m : m.kind \in EventKinds)

Tags(q) == {q[i].tag : i \in 1..Len(q)}

\* ------------------------------------------------------------------ claims
\* C1: every deviceBreakdown counter equals the number of entries of that
\* category retained in the history, after any sequence of submissions
\* through either record path. The history is sessions.victims (an entry's
\* category being its user-agent device, or the key it was counted under),
\* sessions.profiles, or both lists together: the claim is taken to hold
\* where any of these readings holds.
C1_CountersMatchHistory ==
    \/ \A c \in Categories :
          deviceBreakdown[c] = Cardinality({i \in 1..Len(victims) : victims[i].device = c})
    \/ \A c \in Categories :
          deviceBreakdown[c] = Cardinality({i \in 1..Len(victims) : InCategory(victims[i].id, c)})
    \/ \A c \in Categories :
          deviceBreakdown[c]
              = Cardinality({i \in 1..Len(profiles) : CountedUnder(profiles[i].type, c)})
    \/ \A c \in Categories :
          deviceBreakdown[c] = Cardinality({id \in RetainedIds : InCategory(id, c)})

\* C2: structured submissions whose handlers interleave at their awaits are
\* all recorded: sessions.count is the number of id assignments made (none
\* is lost), sessions.profiles holds min(N, capacity) of the N profiles pushed,
\* both histories carry ascending (hence distinct) ids, and while only
\* structured submissions were made every counter is the number of
\* insertions under its key.
C2_ConcurrentRecordsAllKept ==
    LET P == SelectSeq(EpochLog, Profiled)
    IN /\ count = Len(EpochLog)
       /\ Len(profiles) = Min(Len(P), HistoryCap)
       /\ Ascending(profiles)
       /\ Ascending(victims)
       /\ (\A i \in 1..Len(EpochLog) : EpochLog[i].path = "profile") =>
              \A c \in Categories :
                  deviceBreakdown[c]
                      = Cardinality({i \in 1..Len(P) : CountedUnder(P[i].type, c)})

\* C2 witness: every handler has recorded its profile, more profiles than the capacity
\* were pushed, and two handlers recorded in the reverse of their arrival.
C2_Witness ==
    /\ \A r \in Req : req[r].pc = "recorded"
    /\ nLegacy = 0
    /\ nResets = 0
    /\ Len(profiles) = HistoryCap
    /\ \E r1, r2 \in Req : r1 < r2 /\ req[r2].id < req[r1].id
    /\ deviceBreakdown["Unknown"] > 0

\* C3: each history holds exactly the last `capacity` entries pushed to it
\* since the last reset, in the order they were recorded; the older ones,
\* and only those, are gone.
C3_HistoryKeepsMostRecent ==
    /\ Key(victims) = LastN(Key(SelectSeq(EpochLog, Accepted)), HistoryCap)
    /\ Key(profiles) = LastN(Key(SelectSeq(EpochLog, Profiled)), HistoryCap)

\* C3 witness: more submissions than the capacity were accepted, through
\* both paths.
C3_Witness ==
    /\ Len(SelectSeq(EpochLog, Accepted)) > HistoryCap
    /\ Len(victims) = HistoryCap
    /\ \E i \in 1..Len(EpochLog) : EpochLog[i].path = "legacy"
    /\ \E i \in 1..Len(victims) : victims[i].id \in {profiles[j].id : j \in 1..Len(profiles)}

\* C4 as stated: over the whole process lifetime, resetSessions calls
\* included, ids are strictly increasing in assignment order (so no id is
\* given twice).
C4_IdsNeverReused ==
    \A i, j \in 1..Len(log) : i < j => log[i].id < log[j].id

\* C4 amended: between two resetSessions calls ids are strictly increasing
\* in assignment order, and every retained entry carries an id assigned
\* since the last reset.
C4_IdsIncreaseBetweenResets ==
    /\ \A i, j \in 1..Len(log) : (i < j /\ log[i].epoch = log[j].epoch) => log[i].id < log[j].id
    /\ RetainedIds \subseteq {EpochLog[i].id : i \in 1..Len(EpochLog)}

\* C4 witness: after a reset two ids were assigned, one of them already
\* given before the reset, with a failed submission among the assignments.
C4_Witness ==
    /\ epoch >= 1
    /\ Len(EpochLog) >= 2
    /\ \E i, j \in 1..Len(log) : log[i].epoch < log[j].epoch /\ log[i].id = log[j].id
    /\ \E i \in 1..Len(log) : log[i].outcome = "noBlock"

C6_GetSubscriberReceivesAll ==
    \A c \in viaGet :
        ctrl[c].state = "open" =>
            \A t \in (regAt[c] + 1)..pubCount : t \in Tags(Events(c))

\* C7: no subscriber holds an event published before it was registered.
C7_NoReplay ==
    \A c \in Ctrl :
        \A i \in 1..Len(ctrl[c].queue) :
            ctrl[c].queue[i].kind \in EventKinds => ctrl[c].queue[i].tag > regAt[c]

\* C7 witness: a subscriber registered after a publish has received a later
\* event.
C7_Witness ==
    \E c \in Ctrl : regAt[c] >= 1 /\ Len(Events(c)) >= 1

\* C8: in a publishing step, every subscriber whose connection is open
\* stays subscribed and receives each message of the step, every subscriber
\* whose connection is closed is gone afterwards, and the set shrinks by
\* exactly the number of failed subscribers.
C8_FailedDeliveryIsolated ==
    [][pubCount' > pubCount =>
          LET before == Range(clients)
              dead == {c \in before : ctrl[c].state # "open"}
          IN /\ \A c \in before \ dead :
                    \A t \in (pubCount + 1)..pubCount' : t \in Tags(ctrl'[c].queue)
             /\ Range(clients') = before \ dead
             /\ Len(clients') = Len(clients) - Cardinality(dead)]_vars

\* C8 witness: the last publish removed a failed subscriber and another,
\* still subscribed, received its message.
C8_Witness ==
    /\ lastFailed # {}
    /\ \E c \in Range(clients) :
          /\ ctrl[c].state = "open"
          /\ Len(ctrl[c].queue) > 0
          /\ ctrl[c].queue[Len(ctrl[c].queue)].tag = pubCount

\* C9: a subscriber's events arrive in publish order, each at most once.
C9_PerSubscriberOrder ==
    \A c \in Ctrl :
        \A i, j \in 1..Len(Events(c)) : i < j => Events(c)[i].tag < Events(c)[j].tag

\* C9 witness: a subscriber has received events of two publishing steps,
\* a profile event and then a telemetry event.
C9_Witness ==
    \E c \in Ctrl :
        \E i, j \in 1..Len(Events(c)) :
            i < j /\ Events(c)[i].kind = "victim" /\ Events(c)[j].kind = "media_update"

\* C10: removeClient removes its handle and nothing else; on a handle that
\* is no member (removed before, by removeClient or by a failed delivery)
\* it leaves the set as it is.
C10_RemoveClientIdempotent ==
    [][\A c \in Ctrl :
          removeClient(c) =>
              /\ Range(clients') = Range(clients) \ {c}
              /\ (c \notin Range(clients) => clients' = clients)]_vars

\* C10 witness: removeClient was called on a handle that the last publish
\* had removed for a failed delivery, while another subscriber was in the set.
C10_Witness ==
    /\ lastAbsent \in lastFailed
    /\ lastAbsent \notin Range(clients)
    /\ clients # <<>>

\* ------------------------------------------------------------------ POST /api/media
\* The subscribers a publish of this step writes to.
OpenSubscribers == {c \in Range(clients) : ctrl[c].state = "open"}

\* The step is the handling of one POST /api/media request.
MediaStep == nMedia' # nMedia

SentNumber(v) == v.t = "number"

C12_IncompleteGrantsRejected ==
    LET p == mediaReply.body.permissions IN
    ( /\ mediaReply.status # 0
      /\ ~( /\ p.t = "object" /\ p.camera.t = "boolean"
            /\ p.microphone.t = "boolean" /\ p.geolocation.t = "boolean" ) )
    => mediaReply.status \in 400..499

\* C13: a body with both required fields is accepted whatever its frame,
\* audioLevel and location are, and the stored sample has a frame only if a
\* string was sent, an audioLevel only if a number in [0,100] was sent, and a
\* location only if an object with numeric latitude, longitude and accuracy
\* was sent.
C13_WrongTypedDropped ==
    LET body == mediaReply.body IN
    mediaReply.status = 200 =>
        /\ currentMedia.frame # JSUndefined => body.frame.t = "string"
        /\ currentMedia.audioLevel # JSUndefined =>
               SentNumber(body.audioLevel) /\ body.audioLevel.n \in 0..100
        /\ currentMedia.location # NoLocation =>
               /\ body.location.t = "object"
               /\ SentNumber(body.location.latitude)
               /\ SentNumber(body.location.longitude)
               /\ SentNumber(body.location.accuracy)

\* C14: an accepted submission replaces sessions.currentMedia by a sample made
\* of that submission's fields alone (no field keeps the value an earlier
\* sample had), every open subscriber is sent one media_update carrying that
\* sample, and no other step changes sessions.currentMedia.
C14_SlotHoldsLastAccepted ==
    [][IF MediaStep /\ mediaReply'.status = 200
       THEN LET body == mediaReply'.body IN
            /\ currentMedia'.capturedAt = body.capturedAt
            /\ currentMedia'.frame = (IF body.frame.t = "string" THEN body.frame ELSE JSUndefined)
            /\ currentMedia'.audioLevel \in {body.audioLevel, JSUndefined}
            /\ currentMedia'.location \in
                  {NoLocation, Location(body.location.latitude, body.location.longitude,
                                        body.location.accuracy)}
            /\ currentMedia'.permissions =
                  [camera |-> Truthy(body.permissions.camera),
                   microphone |-> Truthy(body.permissions.microphone),
                   geolocation |-> Truthy(body.permissions.geolocation)]
            /\ \A c \in OpenSubscribers :
                  /\ Len(ctrl'[c].queue) = Len(ctrl[c].queue) + 1
                  /\ ctrl'[c].queue[Len(ctrl'[c].queue)].kind = "media_update"
                  /\ ctrl'[c].queue[Len(ctrl'[c].queue)].media = currentMedia'
       ELSE currentMedia' = currentMedia
    ]_vars

\* A sample without frame and location has replaced one that had both, and a
\* subscriber was sent both.
C14_Witness ==
    /\ mediaReply.status = 200
    /\ currentMedia.frame = JSUndefined
    /\ currentMedia.location = NoLocation
    /\ \E c \in Ctrl : \E i, j \in 1..Len(ctrl[c].queue) :
          /\ i < j
          /\ ctrl[c].queue[i].kind = "media_update"
          /\ ctrl[c].queue[i].media.frame # JSUndefined
          /\ ctrl[c].queue[i].media.location # NoLocation
          /\ ctrl[c].queue[j].kind = "media_update"
          /\ ctrl[c].queue[j].media = currentMedia

\* ------------------------------------------------------------------ capture loop
\* The click handlers waiting for a getUserMedia request.
Acquiring == {v \in View : view[v].pc \in {"getUserMedia", "getUserMediaVideo"}}

\* The samples whose location fix or fetch is outstanding.
InFlight == {j \in Job : jobs[j].pc \in {"getGeolocation", "fetch"}}

\* The step is a call of stopGlobalStreaming (from outside or from a tick).
StopStep == nStops' # nStops

\* The step is the failure of a sample's fetch.
SendFailureStep == \E j \in Job : jobs[j].pc = "fetch" /\ jobs'[j].pc = "failed"

\* C15: at most one click handler is waiting for a getUserMedia request at
\* any time, whatever the mounts the clicks came from.
C15_SingleAcquisition == Cardinality(Acquiring) <= 1

\* C16: at most one interval timer is active, and it is the one
\* window.__sirenStreamInterval names, after any sequence of
\* startGlobalStreaming calls, stopGlobalStreaming calls and auto-stops.
C16_OneInterval ==
    /\ Cardinality(timers) <= 1
    /\ timers = (IF interval = 0 THEN {} ELSE {interval})

\* startGlobalStreaming has been called from two mounts, each with a stream
\* to send, and one interval is active.
C16_Witness ==
    /\ \A v \in {1, 2} : view[v].pc = "done" /\ view[v].success = "true"
    /\ tracks[1] # "none"
    /\ nStops = 0
    /\ Cardinality(timers) = 1

\* C17: when stopGlobalStreaming returns, no track of any stream obtained so
\* far is live, the audio context and the video element are gone, no
\* interval timer is active and isStreaming is false.
C17_StopReleasesEverything ==
    [][StopStep =>
        /\ \A s \in View : tracks'[s] # "live"
        /\ ~audioContext'
        /\ ~videoElement'
        /\ timers' = {}
        /\ ~isStreaming'
    ]_vars

\* C18: at most one sample is being sent and one more is pending.
C18_InFlightBounded == Cardinality(InFlight) <= 2

\* C19: the failure of a sample's fetch leaves the interval timer, the
\* stream and its tracks and isStreaming as they were, and while isStreaming
\* is true the timer named by window.__sirenStreamInterval is active.
C19_FailureKeepsLoop ==
    [][ /\ SendFailureStep =>
             /\ interval' = interval
             /\ timers' = timers
             /\ stream' = stream
             /\ tracks' = tracks
             /\ isStreaming' = isStreaming
        /\ isStreaming' => (interval' # 0 /\ interval' \in timers')
    ]_vars

\* A tick that fired after a sample's fetch had failed has sent its sample,
\* and nobody has called stop.
C19_Witness ==
    /\ nStops = 0
    /\ interval \in timers
    /\ \E j \in Job : /\ jobs[j].kind = "tick"
                      /\ jobs[j].after
                      /\ jobs[j].pc \in {"fetch", "done"}

\* C20: initGlobalStream returns false only to a user who lets it have
\* neither the camera nor the microphone.
C20_DeniedOnlyIfAllFailed ==
    \A v \in View :
        view[v].success = "false" => ~view[v].grants.camera /\ ~view[v].grants.microphone

TrackFailureStep == \E r \in Req : req[r].pc # "failed" /\ req'[r].pc = "failed"

\* C22: a profile submission that the handler answers with success:false
\* leaves count, both histories, the counters and the current profile as
\* they were.
C22_RejectedLeavesRegistry ==
    [][TrackFailureStep =>
        /\ count' = count
        /\ victims' = victims
        /\ profiles' = profiles
        /\ deviceBreakdown' = deviceBreakdown
        /\ currentVictim' = currentVictim
    ]_vars

\* The nested blocks a complete profile has.
BlockNames == {"device", "browser", "display", "network", "locale", "capabilities", "hardware"}

\* C23: every legacy submission is accepted, and the current profile addVictim
\* makes has each of the seven nested blocks with no field null or undefined,
\* whatever the user agent.
C23_LegacyProfileFullyPopulated ==
    /\ \A i \in 1..Len(log) : log[i].path = "legacy" => log[i].outcome = "ok"
    /\ currentVictim.partial =>
          /\ DOMAIN currentVictim.blocks = BlockNames
          /\ \A b \in BlockNames : \A f \in DOMAIN currentVictim.blocks[b] :
                currentVictim.blocks[b][f].t \notin {"undefined", "null"}

\* The current profile is that of a user agent in which parseDevice and
\* parseBrowser recognise nothing.
C23_Witness ==
    /\ currentVictim.partial
    /\ currentVictim.userAgent = UAUnknown
    /\ currentVictim.blocks.device.type = JSStr("Unknown")
    /\ currentVictim.blocks.browser.name = JSStr("Other")

\* A step of resetSessions.
ResetStep == nResets' = nResets + 1

\* C24: resetSessions leaves the registry in its initial state: count 0,
\* both histories empty, every counter 0, no current profile and no current
\* telemetry sample.
C24_ResetRestoresInitialState ==
    [][ResetStep =>
        /\ count' = 0
        /\ victims' = <<>>
        /\ profiles' = <<>>
        /\ \A c \in Categories : deviceBreakdown'[c] = 0
        /\ currentVictim' = NoProfile
        /\ currentMedia' = NoMedia]_vars

\* C27: no counter of deviceBreakdown is ever negative, however structured
\* submissions (counted under the fingerprint's device type) and legacy
\* submissions (whose evictions are counted off under the evicted entry's
\* parsed device) interleave.
C27_CountersNonNegative == \A c \in Categories : deviceBreakdown[c] >= 0

\* Job j's request to /api/media is sent in this step.
SendStep(j) == jobs[j].pc \notin {"fetch", "done", "failed"} /\ jobs'[j].pc = "fetch"

\* C29: a submission is sent only while streaming is on (none after
\* stopGlobalStreaming returned, not even from a tick or a sendFrame that was
\* waiting for a location fix), and none is sent with a captured frame and
\* all three grants false.
C29_NoSubmissionAfterStop ==
    [][\A j \in Job : SendStep(j) =>
          /\ isStreaming'
          /\ ~(jobs'[j].frame /\ jobs'[j].permissions = NoneGranted)]_vars

\* Request r's handler publishes its events in this step.
NotifyStep(r) == req[r].pc = "recorded" /\ req'[r].pc = "done"

\* C28: the current_victim event a structured submission's handler publishes
\* after addVictimWithProfile returned carries the profile that request
\* recorded, whatever was recorded in between, so that every accepted
\* profile has a current_victim event of its own.
C28_CurrentVictimEventIsOwnProfile ==
    [][\A r \in Req : NotifyStep(r) =>
          \A c \in Range(clients) : CanEnqueue(ctrl, c) =>
             \E i \in DOMAIN ctrl'[c].queue :
                ctrl'[c].queue[i] = Message("current_victim", req[r].id, pubCount + 1)]_vars

\* The pings in a connection's queue.
Pings(c) == Len(SelectSeq(ctrl[c].queue, LAMBDA m : m.kind = "ping"))

\* A tick of connection c's heartbeat timer that enqueues its ping.
PingStep(c) == ctrl[c].heartbeat /\ nPings' = nPings + 1 /\ Len(ctrl'[c].queue) = Len(ctrl[c].queue) + 1

\* C25: every open connection of GET /api/events has its heartbeat timer,
\* a tick of which enqueues one ping on that connection and on no other;
\* once the client has gone away, the timer is eventually cleared and the
\* controller eventually removed from the subscriber set.
C25_HeartbeatPerConnection ==
    /\ [](\A c \in Ctrl : ctrl[c].state = "open" => ctrl[c].heartbeat /\ c \in routeClients)
    /\ [][\A c \in Ctrl : PingStep(c) =>
            /\ ctrl'[c].queue = Append(ctrl[c].queue, Message("ping", 0, 0))
            /\ \A d \in Ctrl \ {c} : ctrl'[d] = ctrl[d]]_vars
    /\ \A c \in Ctrl : (ctrl[c].state = "closed") ~> (~ctrl[c].heartbeat /\ c \notin routeClients)

\* A connection that got a ping was closed by its client and has been
\* cleaned up, while another is open.
C25_Witness ==
    \E c, d \in Ctrl :
        /\ ctrl[c].state = "closed" /\ ~ctrl[c].heartbeat /\ c \notin routeClients
        /\ Pings(c) = 1
        /\ ctrl[d].state = "open" /\ ctrl[d].heartbeat

\* C26: after every connect and reconnect of the EventSource the monitor
\* fetches the full state: once the connection is open and no stats request
\* is on its way, fetchStats has run since that connection was started.
C26_FetchAfterEveryConnect ==
    mon.es = "open" /\ mon.fetch = "done" => mon.fetchedAt = mon.conns

\* The monitor has fetched its stats, its first connection is open, and
\* neither a chunk nor a request is on its way.
MonitorQuiescent ==
    /\ mon.fetch = "done"
    /\ mon.es = "open" /\ mon.conns = 1
    /\ ctrl[mon.conn].state = "open"
    /\ mon.read = Len(ctrl[mon.conn].queue)
    /\ \A r \in Req : req[r].pc \in {"idle", "done", "failed"}

\* C30: after the initial stats fetch and any profile events, once nothing
\* is in flight the count the monitor shows is the registry's count.
C30_ShownCountIsRegistryCount == MonitorQuiescent => mon.shown = count

====
